---- MODULE Spec2Model ----
(***************************************************************************)
(* A model of src/markov.py: the tokenizer, the MarkovChain transition     *)
(* model (add_text, _next_weighted, generate_words) and its snapshot       *)
(* (to_dict / from_dict, save / load).                                     *)
(*                                                                         *)
(* A text is a sequence of characters, a token a non-empty sequence of     *)
(* characters, a state a tuple of tokens.  A Python dict of counts is a    *)
(* sequence of [tok, count] entries in insertion order, which is the order *)
(* _next_weighted walks; the outer dict is a function on its keys.         *)
(***************************************************************************)
EXTENDS Integers, Sequences, FiniteSets, TLC

\* ------------------------------------------------------------------ bounds
\* the orders a model is constructed with: 1..MaxOrder
MaxOrder == 2
\* tokens ingested by one model, over all its texts; a text has at most
\* as many characters
MaxTokens == 4
\* generate_words is called with n_words in 0..MaxN
MaxN == 2

\* The characters the ingested texts are drawn from: a letter, a sentence
\* mark, and "|", a character of neither class (a separator to the tokenizer).
Chars == {"a", ".", "|"}

\* ------------------------------------------------------------- tokenizer
\* a word class that lets "|" into a token
WordCharsWithBar == {"a", "b", "'", "|"}

\* The word class of _word_re, [A-Za-zÀ-ÿ'], as far as Chars reaches.
WordChars == {"a", "b", "'"}
\* The sentence marks of _word_re, [.?!].
PunctChars == {".", "?", "!"}

\* re.findall over the text from position i on; run is the word being matched.
RECURSIVE Scan(_, _, _)
Scan(text, i, run) ==
    IF i > Len(text)
    THEN IF run = <<>> THEN <<>> ELSE <<run>>
    ELSE IF text[i] \in WordChars
         THEN Scan(text, i + 1, Append(run, text[i]))
         ELSE (IF run = <<>> THEN <<>> ELSE <<run>>)
              \o (IF text[i] \in PunctChars THEN << <<text[i]>> >> ELSE <<>>)
              \o Scan(text, i + 1, <<>>)

tokenize(text) == Scan(text, 1, <<>>)

\* tok in (".", "?", "!")
IsPunct(tok) == tok \in { <<c>> : c \in PunctChars }

\* re.match(r"[A-Za-zÀ-ÿ']+$", t)
IsAlpha(tok) == tok # <<>> /\ \A i \in 1..Len(tok) : tok[i] \in WordChars

\* Python's seq[a:b] for 0 <= a, with the slice clamped to the sequence.
Slice(seq, a, b) ==
    LET hi == IF b > Len(seq) THEN Len(seq) ELSE b
    IN  IF a >= hi THEN <<>> ELSE SubSeq(seq, a + 1, hi)

\* ------------------------------------------------------------ count dicts
Keys(dist) == { dist[i].tok : i \in 1..Len(dist) }

\* dist[tok] for a key of the dict
CountOf(dist, tok) ==
    LET i == CHOOSE j \in 1..Len(dist) : dist[j].tok = tok
    IN  dist[i].count

\* dist[nxt] = 1 in place of dist[nxt] += 1
IncrReset(dist, nxt) ==
    IF nxt \in Keys(dist)
    THEN [i \in 1..Len(dist) |->
            IF dist[i].tok = nxt THEN [tok |-> nxt, count |-> 1] ELSE dist[i]]
    ELSE Append(dist, [tok |-> nxt, count |-> 1])

\* dist[nxt] += 1 on a defaultdict(int): a new key is inserted last, with 1.
Incr(dist, nxt) ==
    IF nxt \in Keys(dist)
    THEN [i \in 1..Len(dist) |->
            IF dist[i].tok = nxt
            THEN [tok |-> nxt, count |-> dist[i].count + 1]
            ELSE dist[i]]
    ELSE Append(dist, [tok |-> nxt, count |-> 1])

\* self.transitions[state][nxt] += 1: a missing state is created on access.
Bump(tr, state, nxt) ==
    IF state \in DOMAIN tr
    THEN [tr EXCEPT ![state] = Incr(tr[state], nxt)]
    ELSE [s \in DOMAIN tr \cup {state} |->
            IF s = state THEN Incr(<<>>, nxt) ELSE tr[s]]

\* --------------------------------------------------------------- add_text
\* sent_starts after the loop has seen tokens[0..i-1] (offsets are 0-based).
RECURSIVE SentStarts(_, _)
SentStarts(tokens, i) ==
    IF i = 0
    THEN <<0>>
    ELSE LET prev == SentStarts(tokens, i - 1)
         IN  IF IsPunct(tokens[i]) /\ i < Len(tokens)
             THEN Append(prev, i)
             ELSE prev

\* s + order <= len(tokens) in place of s + order < len(tokens)
KeepStartInclusive(tokens, ord, s) == s + ord <= Len(tokens)

\* whether add_text records the window at sentence start s
KeepStart(tokens, ord, s) == s + ord < Len(tokens)

\* the states appended to self.starts, for sent_starts[k..]
RECURSIVE NewStarts(_, _, _, _)
NewStarts(tokens, ord, ss, k) ==
    IF k > Len(ss)
    THEN <<>>
    ELSE (IF KeepStart(tokens, ord, ss[k])
          THEN << Slice(tokens, ss[k], ss[k] + ord) >>
          ELSE <<>>)
         \o NewStarts(tokens, ord, ss, k + 1)

\* the transition table after the loop has run for i = 0 .. upto-1
RECURSIVE Count(_, _, _, _)
Count(tr, tokens, ord, upto) ==
    IF upto <= 0
    THEN tr
    ELSE LET i == upto - 1
         IN  Bump(Count(tr, tokens, ord, i), Slice(tokens, i, i + ord), tokens[i + ord + 1])

\* add_text on the tokens of the text: the new [starts, transitions]
add_text(st, tr, ord, tokens) ==
    IF Len(tokens) <= ord
    THEN [starts |-> st, transitions |-> tr]
    ELSE [starts |-> st \o NewStarts(tokens, ord, SentStarts(tokens, Len(tokens)), 1),
          transitions |-> Count(tr, tokens, ord, Len(tokens) - ord)]

EmptyDict == [s \in {} |-> <<>>]

\* -------------------------------------------------------- _next_weighted
\* sum(dist.values())
RECURSIVE Total(_)
Total(dist) == IF dist = <<>> THEN 0 ELSE dist[1].count + Total(Tail(dist))

NoToken == [none |-> TRUE, tok |-> <<>>]
Some(t) == [none |-> FALSE, tok |-> t]

\* r <= cum in place of r < cum
CoveredInclusive(r, cum) == r <= cum

\* the comparison that ends the walk: r < cum
Covered(r, cum) == r < cum

\* the walk over dist.items() from entry i on, cum being the sum so far
RECURSIVE Walk(_, _, _, _)
Walk(dist, r, i, cum) ==
    IF i > Len(dist)
    THEN NoToken
    ELSE IF Covered(r, cum + dist[i].count)
         THEN Some(dist[i].tok)
         ELSE Walk(dist, r, i + 1, cum + dist[i].count)

\* self.transitions[state] in place of self.transitions.get(state): the
\* defaultdict creates the missing state with an empty distribution
DictIndex(tr, state) ==
    [dist |-> IF state \in DOMAIN tr THEN tr[state] ELSE <<>>,
     table |-> IF state \in DOMAIN tr
               THEN tr
               ELSE [s \in DOMAIN tr \cup {state} |->
                       IF s = state THEN <<>> ELSE tr[s]]]

\* self.transitions.get(state): the value found (<<>> for None) and the table
\* afterwards; dict.get inserts nothing.
DictGet(tr, state) ==
    [dist |-> IF state \in DOMAIN tr THEN tr[state] ELSE <<>>,
     table |-> tr]

\* the draws rng.randrange(total) can return; a draw is made only when the
\* state has a non-empty distribution
Draws(tr, state) ==
    LET dist == DictGet(tr, state).dist
    IN  IF dist = <<>> THEN {0} ELSE 0..(Total(dist) - 1)

\* _next_weighted(state, rng) with r the value rng.randrange(total) returns
next_weighted(tr, state, r) ==
    LET dist == DictGet(tr, state).dist
    IN  IF dist = <<>> THEN NoToken ELSE Walk(dist, r, 1, 0)

\* --------------------------------------------------------- generate_words
\* [t for t in out if re.match(...)]
RECURSIVE Words(_)
Words(seq) ==
    IF seq = <<>>
    THEN <<>>
    ELSE (IF IsAlpha(seq[1]) THEN <<seq[1]>> ELSE <<>>) \o Words(Tail(seq))

alpha_count(seq) == Len(Words(seq))

\* out[-order:]
LastN(seq, ord) == Slice(seq, IF Len(seq) > ord THEN Len(seq) - ord ELSE 0, Len(seq))

\* words in place of words[:n_words]
TruncateNot(words, n) == words

\* words[:n_words], for n_words >= 0
Truncate(words, n) == Slice(words, 0, n)

\* The buffer the model keeps for out.  The code reads out only through its
\* word tokens and its last `order` tokens, so when the buffer grows longer
\* than MaxOut the punctuation tokens before that window are dropped: the
\* words, their order and the window stay those of the code's list.
MaxOut == MaxN + MaxOrder + 2

Keep(seq, ord) ==
    IF Len(seq) <= MaxOut
    THEN seq
    ELSE LET cut == IF Len(seq) > ord THEN Len(seq) - ord ELSE 0
         IN  Words(Slice(seq, 0, cut)) \o Slice(seq, cut, Len(seq))

\* -------------------------------------------------------------- snapshot
Sep == <<"|", "|", "|">>

\* "|||".join(state)
RECURSIVE Join(_)
Join(state) ==
    IF state = <<>>
    THEN <<>>
    ELSE IF Len(state) = 1
         THEN state[1]
         ELSE state[1] \o Sep \o Join(Tail(state))

\* whether sep occurs in s at position i (1-based)
At(s, i) == i + Len(Sep) - 1 <= Len(s) /\ SubSeq(s, i, i + Len(Sep) - 1) = Sep

\* s.split("|||") from position i on, part being the piece read so far
RECURSIVE SplitFrom(_, _, _)
SplitFrom(s, i, part) ==
    IF i > Len(s)
    THEN <<part>>
    ELSE IF At(s, i)
         THEN <<part>> \o SplitFrom(s, i + Len(Sep), <<>>)
         ELSE SplitFrom(s, i + 1, Append(part, s[i]))

\* tuple([s]) in place of tuple(s.split("|||"))
SplitNot(s) == <<s>>

\* tuple(s.split("|||"))
Split(s) == SplitFrom(s, 1, <<>>)

\* to_dict: the dict comprehension keeps one value for each encoded key
to_dict(ord, st, tr) ==
    [version |-> 1,
     order |-> ord,
     starts |-> [i \in 1..Len(st) |-> Join(st[i])],
     transitions |->
        [k \in { Join(s) : s \in DOMAIN tr } |->
            tr[CHOOSE s \in DOMAIN tr : Join(s) = k]]]

\* data.get("order", 2)
DefaultOrder == 2

\* from_dict: the model read from the dict data; ok is FALSE when the
\* constructor raises ValueError
from_dict(data) ==
    LET ord == IF "order" \in DOMAIN data THEN data.order ELSE DefaultOrder
        ss  == IF "starts" \in DOMAIN data THEN data.starts ELSE <<>>
        ts  == IF "transitions" \in DOMAIN data THEN data.transitions ELSE EmptyDict
    IN  [ok |-> ord >= 1,
         order |-> ord,
         starts |-> [i \in 1..Len(ss) |-> Split(ss[i])],
         transitions |->
            [s \in { Split(k) : k \in DOMAIN ts } |->
                ts[CHOOSE k \in DOMAIN ts : Split(k) = s]]]

\* ------------------------------------------------------------------ state
VARIABLES
    order,        \* self.order
    starts,       \* self.starts
    transitions,  \* self.transitions
    pc,           \* the call in progress: "idle" (none), "loop" and "done"
                  \* (generate_words), "loaded" (load)
    n_words,      \* generate_words: its argument
    out,          \* generate_words: the token buffer
    result,       \* generate_words: the value returned
    restarted,    \* the last loop iteration took the dead-end branch
    file,         \* the snapshot on disk (the JSON object)
    fileExists,   \* whether the path holds a file
    loadOutcome,  \* load: "ok" or "error" ("none" outside a load)
    loadedKeys,   \* load: the fields of the snapshot it read
    ingested,     \* history: the token sequences longer than order that
                  \* add_text was called with, in call order
    fileIngested  \* history: ingested, as of the snapshot on disk

model == <<order, starts, transitions>>
gen == <<pc, n_words, out, result, restarted>>
disk == <<file, fileExists, fileIngested>>
loadv == <<loadOutcome, loadedKeys>>
vars == <<order, starts, transitions, pc, n_words, out, result, restarted,
          file, fileExists, loadOutcome, loadedKeys, ingested, fileIngested>>

Texts == UNION { [1..k -> Chars] : k \in 0..MaxTokens }

RECURSIVE TotalLen(_)
TotalLen(seqs) == IF seqs = <<>> THEN 0 ELSE Len(seqs[1]) + TotalLen(Tail(seqs))

\* MarkovChain(order): order < 1 raises, so a constructed model has order >= 1.
Init ==
    /\ order \in 1..MaxOrder
    /\ starts = <<>>
    /\ transitions = EmptyDict
    /\ pc = "idle"
    /\ n_words = 0
    /\ out = <<>>
    /\ result = <<>>
    /\ restarted = FALSE
    /\ file = EmptyDict
    /\ fileExists = FALSE
    /\ loadOutcome = "none"
    /\ loadedKeys = {}
    /\ ingested = <<>>
    /\ fileIngested = <<>>

\* mc.add_text(text)
AddText ==
    /\ pc = "idle"
    /\ \E text \in Texts :
         LET tokens == tokenize(text)
             m == add_text(starts, transitions, order, tokens)
         IN  /\ TotalLen(ingested) + Len(tokens) <= MaxTokens
             /\ starts' = m.starts
             /\ transitions' = m.transitions
             /\ ingested' = IF Len(tokens) > order
                            THEN Append(ingested, tokens)
                            ELSE ingested
    /\ UNCHANGED <<order, gen, disk, loadv>>

\* generate_words(n, rng) up to the loop: the empty-starts return, or the
\* first rng.choice(self.starts)
GenStart ==
    /\ pc = "idle"
    /\ \E n \in 0..MaxN :
         /\ n_words' = n
         /\ IF starts = <<>>
            THEN /\ pc' = "done"
                 /\ result' = <<>>
                 /\ out' = <<>>
            ELSE \E k \in 1..Len(starts) :
                 /\ pc' = "loop"
                 /\ out' = Keep(starts[k], order)
                 /\ result' = <<>>
    /\ restarted' = FALSE
    /\ UNCHANGED <<model, disk, loadv, ingested>>

\* one test of the while condition: an iteration of the loop, or the exit
\* and the return
GenStep ==
    /\ pc = "loop"
    /\ IF alpha_count(out) < n_words
       THEN LET state == LastN(out, order)
            IN  \E r \in Draws(transitions, state) :
                LET nxt == next_weighted(transitions, state, r)
                IN  /\ transitions' = DictGet(transitions, state).table
                    /\ IF nxt.none
                       THEN \E k \in 1..Len(starts) :
                            /\ out' = Keep(out \o starts[k], order)
                            /\ restarted' = TRUE
                       ELSE /\ out' = Keep(Append(out, nxt.tok), order)
                            /\ restarted' = FALSE
                    /\ UNCHANGED <<pc, result>>
       ELSE /\ result' = Truncate(Words(out), n_words)
            /\ pc' = "done"
            /\ UNCHANGED <<transitions, out, restarted>>
    /\ UNCHANGED <<order, starts, n_words, disk, loadv, ingested>>

\* the caller takes the result; the locals of the call are gone
GenReturn ==
    /\ pc = "done"
    /\ pc' = "idle"
    /\ n_words' = 0
    /\ out' = <<>>
    /\ result' = <<>>
    /\ restarted' = FALSE
    /\ UNCHANGED <<model, disk, loadv, ingested>>

\* mc.save(path): json.dump writes the dict of to_dict, whose keys are
\* strings and whose values are ints, strings, lists and dicts
Save ==
    /\ pc = "idle"
    /\ file' = to_dict(order, starts, transitions)
    /\ fileExists' = TRUE
    /\ fileIngested' = ingested
    /\ UNCHANGED <<model, gen, loadv, ingested>>

\* MarkovChain.load(path), the program going on with the model returned:
\* open() raises when there is no file, the constructor when order < 1
Load ==
    /\ pc = "idle"
    /\ pc' = "loaded"
    /\ IF ~fileExists
       THEN /\ loadOutcome' = "error"
            /\ loadedKeys' = {}
            /\ UNCHANGED <<model, ingested>>
       ELSE LET mc == from_dict(file)
            IN  /\ loadedKeys' = DOMAIN file
                /\ IF mc.ok
                   THEN /\ loadOutcome' = "ok"
                        /\ order' = mc.order
                        /\ starts' = mc.starts
                        /\ transitions' = mc.transitions
                        /\ ingested' = fileIngested
                   ELSE /\ loadOutcome' = "error"
                        /\ UNCHANGED <<model, ingested>>
    /\ UNCHANGED <<n_words, out, result, restarted, disk>>

\* the caller takes the model load returned, or handles the exception
LoadReturn ==
    /\ pc = "loaded"
    /\ pc' = "idle"
    /\ loadOutcome' = "none"
    /\ loadedKeys' = {}
    /\ UNCHANGED <<model, n_words, out, result, restarted, disk, ingested>>

\* the environment: the snapshot on disk loses one of its fields
Damage ==
    /\ pc = "idle"
    /\ fileExists
    /\ \E k \in DOMAIN file :
         file' = [j \in DOMAIN file \ {k} |-> file[j]]
    /\ UNCHANGED <<model, gen, fileExists, fileIngested, loadv, ingested>>

Next == AddText \/ GenStart \/ GenStep \/ GenReturn \/ Save \/ Load \/ LoadReturn

Spec == Init /\ [][Next]_vars

\* generation is a loop of one thread: while it can take a step it does
FairSpec == Spec /\ WF_vars(GenStep)

\* building, saving and loading models whose snapshot may be damaged on disk
NextDamaged == AddText \/ Save \/ Load \/ LoadReturn \/ Damage

SpecDamaged == Init /\ [][NextDamaged]_vars

\* ---------------------------------------------------------------- claims
Range(seq) == { seq[i] : i \in 1..Len(seq) }

\* how often x occurs in seq
Occ(seq, x) == Cardinality({ i \in 1..Len(seq) : seq[i] = x })

\* the (state, successor, count) triples of a transition table
Triples(tr) ==
    UNION { { <<S, tr[S][i].tok, tr[S][i].count>> : i \in 1..Len(tr[S]) } : S \in DOMAIN tr }

\* C1: when generate_words returns on a model with at least one Start State,
\* the result has exactly n_words elements and each of them is a word token,
\* none a sentence mark.
C1_LengthContract ==
    (pc = "done" /\ starts # <<>>) =>
        /\ Len(result) = n_words
        /\ \A i \in 1..Len(result) : IsAlpha(result[i]) /\ ~IsPunct(result[i])

\* a call has returned n_words > 0 words from a buffer that held more words
C1_Witness ==
    /\ pc = "done"
    /\ n_words > 0
    /\ Len(result) = n_words
    /\ alpha_count(out) > n_words

\* C2: from_dict(to_dict(m)) has the order of m, the Start States of m with
\* their multiplicities and the (state, successor, count) triples of m, and
\* splitting the "|||"-joined encoding of a state of m gives the state back.
C2_RoundTrip ==
    LET m == from_dict(to_dict(order, starts, transitions))
    IN  /\ m.ok
        /\ m.order = order
        /\ Len(m.starts) = Len(starts)
        /\ \A S \in Range(starts) \cup Range(m.starts) : Occ(m.starts, S) = Occ(starts, S)
        /\ Triples(m.transitions) = Triples(transitions)
        /\ \A S \in DOMAIN transitions \cup Range(starts) : Split(Join(S)) = S

\* load has returned the model of a snapshot with several Start States and
\* several table keys, all of two tokens
C2_Witness ==
    /\ pc = "loaded"
    /\ loadOutcome = "ok"
    /\ order = 2
    /\ Len(starts) >= 2
    /\ Cardinality(DOMAIN transitions) >= 2

\* C3: every key of the Transition Table and every Start State is a tuple of
\* exactly order tokens.
C3_OrderInvariant ==
    /\ \A S \in DOMAIN transitions : Len(S) = order
    /\ \A i \in 1..Len(starts) : Len(starts[i]) = order

\* load has returned a trained model of order 2, read back from its snapshot
C3_Witness ==
    /\ pc = "loaded"
    /\ loadOutcome = "ok"
    /\ order = 2
    /\ ingested # <<>>
    /\ DOMAIN transitions # {}
    /\ starts # <<>>

\* C4: the Transition Table has no key with an empty successor distribution
\* and no successor with a count below 1.
C4_NoEmptyDistribution ==
    \A S \in DOMAIN transitions :
        /\ transitions[S] # <<>>
        /\ \A i \in 1..Len(transitions[S]) : transitions[S][i].count >= 1

\* generate_words has just looked up a state that has no successors
C4_Witness ==
    /\ pc = "loop"
    /\ restarted
    /\ DOMAIN transitions # {}

\* C5: loading a snapshot that lacks the starts field or the transitions
\* field ends in an error.
C5_MissingFieldIsError ==
    (pc = "loaded" /\ fileExists /\ ~({"starts", "transitions"} \subseteq loadedKeys))
        => loadOutcome = "error"

\* C6: once the loop of generate_words is entered, the call returns.
C6_GenerationTerminates == (pc = "loop") ~> (pc = "done")

\* the number of i in 0..L-order-1 with T[i:i+order] = S and T[i+order] = t
Occurrences(T, ord, S, t) ==
    Cardinality({ i \in 0..(Len(T) - ord - 1) :
                    SubSeq(T, i + 1, i + ord) = S /\ T[i + ord + 1] = t })

RECURSIVE SumOccurrences(_, _, _, _)
SumOccurrences(texts, ord, S, t) ==
    IF texts = <<>>
    THEN 0
    ELSE Occurrences(texts[1], ord, S, t) + SumOccurrences(Tail(texts), ord, S, t)

\* transitions[S][t], 0 when there is no such entry
Stored(tr, S, t) ==
    IF S \in DOMAIN tr /\ t \in Keys(tr[S]) THEN CountOf(tr[S], t) ELSE 0

\* the windows of ord tokens and the tokens that occur in the ingested texts
WindowsOf(texts, ord) ==
    UNION { { SubSeq(texts[k], i + 1, i + ord) : i \in 0..(Len(texts[k]) - ord) }
            : k \in 1..Len(texts) }

TokensOf(texts) == UNION { Range(texts[k]) : k \in 1..Len(texts) }

\* C7: the stored count of every (state, successor) is the number of its
\* occurrences summed over all ingested texts; a successor is stored once.
C7_CountsAccumulate ==
    /\ \A S \in DOMAIN transitions :
         \A i, j \in 1..Len(transitions[S]) :
            transitions[S][i].tok = transitions[S][j].tok => i = j
    /\ \A S \in DOMAIN transitions \cup WindowsOf(ingested, order) :
         \A t \in TokensOf(ingested) \cup
                  (IF S \in DOMAIN transitions THEN Keys(transitions[S]) ELSE {}) :
            Stored(transitions, S, t) = SumOccurrences(ingested, order, S, t)

\* two texts were ingested and both count towards one (state, successor)
C7_Witness ==
    /\ Len(ingested) = 2
    /\ \E S \in DOMAIN transitions : \E t \in Keys(transitions[S]) :
         /\ Occurrences(ingested[1], order, S, t) >= 1
         /\ Occurrences(ingested[2], order, S, t) >= 1
         /\ CountOf(transitions[S], t) >= 2

\* the boundary offsets of T: 0 and every i+1 with T[i] a sentence mark and
\* i+1 < L (0-based), of which those with s + order < L start a Start State
StartOffsets(T, ord) ==
    { s \in ({0} \cup { i + 1 : i \in { j \in 0..(Len(T) - 1) : IsPunct(T[j + 1]) } }) :
        s < Len(T) /\ s + ord < Len(T) }

\* the elements of a set of numbers in increasing order
Ascending(S) ==
    CHOOSE f \in [1..Cardinality(S) -> S] :
        \A i, j \in 1..Cardinality(S) : i < j => f[i] < f[j]

ExpectedStarts(T, ord) ==
    LET off == Ascending(StartOffsets(T, ord))
    IN  [k \in 1..Len(off) |-> SubSeq(T, off[k] + 1, off[k] + ord)]

RECURSIVE AllExpectedStarts(_, _)
AllExpectedStarts(texts, ord) ==
    IF texts = <<>>
    THEN <<>>
    ELSE ExpectedStarts(texts[1], ord) \o AllExpectedStarts(Tail(texts), ord)

\* C8: Start States is, text after text, the windows at the boundary offsets s
\* of the text with s + order < L, in increasing offset order, duplicates kept.
C8_StartsAppended == starts = AllExpectedStarts(ingested, order)

\* a text gave the same Start State twice, and one of its boundary offsets
\* was too close to the end to give one
C8_Witness ==
    /\ Len(ingested) >= 1
    /\ \E i, j \in 1..Len(starts) : i < j /\ starts[i] = starts[j]
    /\ \E k \in 1..Len(ingested) : \E i \in 1..(Len(ingested[k]) - 1) :
         IsPunct(ingested[k][i]) /\ i + order >= Len(ingested[k])

\* C9: for every state S of the table with total count N and every draw r in
\* [0, N), _next_weighted returns a successor of S, never None, and returns
\* each successor t for exactly transitions[S][t] of the N draws.
C9_WeightedSampling ==
    \A S \in DOMAIN transitions :
        LET dist == transitions[S]
            N == Total(dist)
        IN  /\ \A r \in 0..(N - 1) :
                 /\ ~next_weighted(transitions, S, r).none
                 /\ next_weighted(transitions, S, r).tok \in Keys(dist)
            /\ \A t \in Keys(dist) :
                 Cardinality({ r \in 0..(N - 1) : next_weighted(transitions, S, r) = Some(t) })
                    = CountOf(dist, t)

\* a state has two successors with different counts
C9_Witness ==
    \E S \in DOMAIN transitions :
        /\ Len(transitions[S]) = 2
        /\ transitions[S][1].count # transitions[S][2].count

\* C10: every Start State is a key of the Transition Table, and the loop
\* iteration after a dead-end restart samples a successor for every draw.
C10_StartsAreKeys ==
    /\ \A i \in 1..Len(starts) : starts[i] \in DOMAIN transitions
    /\ (pc = "loop" /\ restarted) =>
         \A r \in Draws(transitions, LastN(out, order)) :
            ~next_weighted(transitions, LastN(out, order), r).none

\* the loop goes on after a dead-end restart
C10_Witness ==
    /\ pc = "loop"
    /\ restarted
    /\ alpha_count(out) < n_words
====
